---- MODULE Spec2Model ----
(***************************************************************************)
(* The order controller of internal/controller (the refactored variant     *)
(* with atomic id counters): a priority queue of pending orders, a pool of *)
(* bots, the assignment pass, and the processOrder goroutine of every      *)
(* picked-up order, interleaved with the calls of concurrent callers.      *)
(*                                                                         *)
(* Granularity: one step per critical section.  oc.mu and the bots' mu are *)
(* not variables of the model: a step is a whole section run under its     *)
(* lock (Lock, body, Unlock), so every state of the model is one in which  *)
(* oc.mu is free.  What a thread does between two critical sections (the   *)
(* atomic id allocation, the log lines, the select) separates the steps.   *)
(*                                                                         *)
(* The assignment pass holds oc.mu from its first line to its last and is  *)
(* one step.  The code that can run during a pass takes no oc.mu: an id    *)
(* allocation, stopBotProcessing on a bot that has left the pool, and      *)
(* completeOrderProcessing.  Of what these write, a pass reads only the    *)
(* Status of a pool bot, in that bot's iteration, which sees the bot       *)
(* before or after its completion: as if the completion step came before   *)
(* or after the whole pass.                                                *)
(*                                                                         *)
(* Order.Status is written without a common lock by completeOrderProcessing*)
(* (bot.mu of a removed bot) and by a pass or stopBotProcessing on another *)
(* bot; the steps interleave in either order.                              *)
(***************************************************************************)
EXTENDS Integers, Sequences, FiniteSets, Bags, TLC

\* Bound of the model: how many orders and bots, taken together, a run may
\* create.
MaxCreated == 3

\* The log variable keeps the first MaxLogged lines of the log.
MaxLogged == 4

\* Bound of the lock-level specifications: how many orders and bots, taken
\* together, a run may create.
MaxLockCreated == 3

\* NewOrderController: the first order id and the first bot id.
BaseOrderID == 1001
BaseBotID == 1
\* make(chan bool, 1)
StopChanCap == 1

\* The threads that call the controller's exported methods.
Callers == {"c1", "c2"}

\* nil for *Order, and the zero BotID
NoOrder == 0

OrderTypeNormal == "Normal"
OrderTypeVIP == "VIP"
OrderStatusPending == "Pending"
OrderStatusProcessing == "Processing"
OrderStatusComplete == "Complete"
BotStatusIdle == "Idle"
BotStatusProcessing == "Processing"

VARIABLES
    nextOrderID,     \* oc.nextOrderID
    nextBotID,       \* oc.nextBotID
    orders,          \* oc.orders: sequence of order ids
    pendingOrders,   \* oc.pendingOrders: sequence of order ids
    completedOrders, \* oc.completedOrders: sequence of order ids
    bots,            \* oc.bots: sequence of bot ids (the pool)
    order,           \* the Order objects: id -> [Type, Status, BotID]
    bot,             \* the Bot objects: id -> [Status, Order, stopChan]
    call,            \* per caller: [pc, arg, bot]
    procs,           \* bag of processOrder goroutines: [bot, pc, order, hasPendingOrders]
    log,             \* the lines written by logger.Log, in the order written
    logging,         \* whether the calls of logger.Log are steps of their own
    owner,           \* lock level: the thread holding oc.mu, the logger's mu, each bot's mu
    thread,          \* lock level: per thread, the statements it has still to run
    shared           \* lock level: the pool, the bots' status and stopChan, the queue length

\* The variables of the lock-level specifications.
lockVars == <<owner, thread, shared>>

\* The variables of Spec, FairSpec, FairCallSpec and SpecLog.
progVars == <<nextOrderID, nextBotID, orders, pendingOrders, completedOrders,
              bots, order, bot, call, procs, log, logging>>

vars == <<nextOrderID, nextBotID, orders, pendingOrders, completedOrders,
          bots, order, bot, call, procs, log, logging, owner, thread, shared>>

-----------------------------------------------------------------------------
(* Helpers *)

\* The orders and bots created so far.
Created == (nextOrderID - BaseOrderID) + (nextBotID - BaseBotID)

Range(s) == {s[i] : i \in 1..Len(s)}

IdleCall == [pc |-> "idle", arg |-> 0, bot |-> 0]

\* A goroutine that has just been started by `go oc.processOrder(bot)`.
NewProc(b) == [bot |-> b, pc |-> "select", order |-> NoOrder, hasPendingOrders |-> FALSE]

Spawn(ps, b) == ps (+) SetToBag({NewProc(b)})

Replace(ps, g, h) == (ps (-) SetToBag({g})) (+) SetToBag({h})

Exit(ps, g) == ps (-) SetToBag({g})

-----------------------------------------------------------------------------
(* The pending queue *)

\* insertVIPOrder's loop: one past the index of the last VIP order in q
\* (0-based, as in the code), 0 when q holds none.
InsertIndex(q) ==
    LET vip == {i \in 1..Len(q) : order[q[i]].Type = OrderTypeVIP}
    IN  IF vip = {} THEN 0 ELSE CHOOSE i \in vip : \A j \in vip : j <= i

insertVIPOrder_AtTail(q, o) == Append(q, o)

insertVIPOrder_AtFront(q, o) == <<o>> \o q

insertVIPOrder(q, o) ==
    SubSeq(q, 1, InsertIndex(q)) \o <<o>> \o SubSeq(q, InsertIndex(q) + 1, Len(q))

\* Mutant: an order that comes back is put where it was picked up, at the
\* head of the queue.
insertOrderToPending_AtHead(q, o) == <<o>> \o q

insertOrderToPending(q, o) ==
    IF order[o].Type = OrderTypeVIP THEN insertVIPOrder(q, o) ELSE Append(q, o)

-----------------------------------------------------------------------------
(* The state of the lock level: who holds which mutex, what each thread has
   still to run, and as much of the shared data as decides which lock is
   taken next.  Orders are counted, not told apart. *)

\* Threads: the callers and the processOrder goroutines, numbered as started.
NoThread == <<"none", 0>>

CallerThread(t) == <<"caller", t>>

GoThread(n) == <<"go", n>>

\* Mutexes: oc.mu, the logger's mu, and bot.mu of bot b.
OcMu == <<"oc", 0>>

LogMu == <<"log", 0>>

BotMu(b) == <<"bot", b>>

\* All mutexes are free; NewOrderController has made no bot yet.
NoOwner == [oc |-> NoThread, log |-> NoThread,
            bot |-> [b \in 1..MaxLockCreated |-> NoThread]]

\* A thread that runs nothing.
IdleThread == [todo |-> <<>>, bot |-> 0]

NoThreads == [c \in {CallerThread(t) : t \in Callers} |-> IdleThread]

\* variant: which controller runs, the one with atomic id counters
\* ("atomic") or the earlier one ("nested"); pool: oc.bots; busy[b]: bot b
\* is Processing with an order; chan[b]: the values in b's stopChan;
\* pending: len(oc.pendingOrders); created: orders and bots made so far;
\* started: goroutines started so far.
NoShared == [variant |-> "atomic", pool |-> <<>>, busy |-> <<>>, chan |-> <<>>,
             pending |-> 0, created |-> 0, started |-> 0]

-----------------------------------------------------------------------------
(* Init: NewOrderController *)

Init ==
    /\ nextOrderID = BaseOrderID
    /\ nextBotID = BaseBotID
    /\ orders = <<>>
    /\ pendingOrders = <<>>
    /\ completedOrders = <<>>
    /\ bots = <<>>
    /\ order = <<>>
    /\ bot = <<>>
    /\ call = [t \in Callers |-> IdleCall]
    /\ procs = EmptyBag
    /\ log = <<>>
    /\ logging = FALSE
    /\ owner = NoOwner
    /\ thread = NoThreads
    /\ shared = NoShared

-----------------------------------------------------------------------------
(* The assignment pass, as a function of the state it reads and writes *)

\* The part of the state assignOrdersToBots works on; started lists the bots
\* for which the pass logged a pick-up and started a processOrder goroutine.
Here == [pending |-> pendingOrders, bot |-> bot, order |-> order, started |-> <<>>]

\* Mutant: picks the order up without marking the bot Processing.
assignBot_KeepsIdle(st, b) ==
    IF st.bot[b].Status = BotStatusIdle /\ Len(st.pending) > 0
    THEN LET o == st.pending[1]
         IN  [pending |-> Tail(st.pending),
              bot     |-> [st.bot EXCEPT ![b].Order = o],
              order   |-> [st.order EXCEPT ![o].Status = OrderStatusProcessing,
                                           ![o].BotID = b],
              started |-> Append(st.started, b)]
    ELSE st

\* Mutant: takes the last pending order instead of the first.
assignBot_TakesLast(st, b) ==
    IF st.bot[b].Status = BotStatusIdle /\ Len(st.pending) > 0
    THEN LET o == st.pending[Len(st.pending)]
         IN  [pending |-> SubSeq(st.pending, 1, Len(st.pending) - 1),
              bot     |-> [st.bot EXCEPT ![b].Order = o,
                                         ![b].Status = BotStatusProcessing],
              order   |-> [st.order EXCEPT ![o].Status = OrderStatusProcessing,
                                           ![o].BotID = b],
              started |-> Append(st.started, b)]
    ELSE st

\* The body of the loop of assignOrdersToBots for pool bot b, between
\* bot.mu.Lock() and bot.mu.Unlock().
assignBot(st, b) ==
    IF st.bot[b].Status = BotStatusIdle /\ Len(st.pending) > 0
    THEN LET o == st.pending[1]
         IN  [pending |-> Tail(st.pending),
              bot     |-> [st.bot EXCEPT ![b].Order = o,
                                         ![b].Status = BotStatusProcessing],
              order   |-> [st.order EXCEPT ![o].Status = OrderStatusProcessing,
                                           ![o].BotID = b],
              started |-> Append(st.started, b)]
    ELSE st

\* Mutant: the pass visits the pool from its last bot to its first.
RECURSIVE assignFrom_Reverse(_, _)
assignFrom_Reverse(st, i) ==
    IF i > Len(bots)
    THEN st
    ELSE assignFrom_Reverse(assignBot(st, bots[Len(bots) - i + 1]), i + 1)

RECURSIVE assignFrom(_, _)
assignFrom(st, i) ==
    IF i > Len(bots) THEN st ELSE assignFrom(assignBot(st, bots[i]), i + 1)

\* A whole pass over the pool, run without interruption.
assignOrdersToBots(st) == assignFrom(st, 1)

RECURSIVE SpawnAll(_, _)
SpawnAll(ps, bs) == IF bs = <<>> THEN ps ELSE SpawnAll(Spawn(ps, Head(bs)), Tail(bs))

\* A line of the log: what happened, to which bot, to which order.
Event(k, b, o) == [kind |-> k, bot |-> b, order |-> o]

\* The log after the lines es have been written to it.
Emit(es) ==
    LET l == log \o es
    IN  IF Len(l) <= MaxLogged THEN l ELSE SubSeq(l, 1, MaxLogged)

\* The log lines of a pass: one per pick-up, written under oc.mu.
PickedUp(st) ==
    [i \in 1..Len(st.started) |->
        Event("picked up", st.started[i], st.bot[st.started[i]].Order)]

\* Mutant: the pass assigns and logs, and starts no goroutine.
AssignEffect_NoGoroutine(ps) ==
    LET st == assignOrdersToBots(Here)
    IN  /\ pendingOrders' = st.pending
        /\ bot' = st.bot
        /\ order' = st.order
        /\ procs' = ps
        /\ log' = IF logging THEN Emit(PickedUp(st)) ELSE log

\* A pass applied to the shared state; ps is the bag of goroutines to which
\* the started goroutines are added.
AssignEffect(ps) ==
    LET st == assignOrdersToBots(Here)
    IN  /\ pendingOrders' = st.pending
        /\ bot' = st.bot
        /\ order' = st.order
        /\ procs' = SpawnAll(ps, st.started)
        /\ log' = IF logging THEN Emit(PickedUp(st)) ELSE log

-----------------------------------------------------------------------------
(* The callers' operations *)

SetCall(t, p, a) == call' = [call EXCEPT ![t] = [pc |-> p, arg |-> a, bot |-> 0]]

\* After its critical section an operation calls logger.Log and then
\* assignOrdersToBots.  The log line e is a step of its own when logging.
LogThenAssign(t, e) ==
    IF logging THEN SetCall(t, "log", e) ELSE SetCall(t, "assign", 0)

NewOrder(ty) == [Type |-> ty, Status |-> OrderStatusPending, BotID |-> 0]

\* CreateNormalOrder, up to oc.mu.Lock(): the atomic id allocation and the
\* new Order.
CreateNormalOrder(t) ==
    /\ call[t].pc = "idle"
    /\ Created < MaxCreated
    /\ nextOrderID' = nextOrderID + 1
    /\ order' = order @@ (nextOrderID :> NewOrder(OrderTypeNormal))
    /\ SetCall(t, "create", nextOrderID)
    /\ UNCHANGED <<nextBotID, orders, pendingOrders, completedOrders, bots, bot, procs, log, logging, lockVars>>

\* CreateVIPOrder, up to oc.mu.Lock().
CreateVIPOrder(t) ==
    /\ call[t].pc = "idle"
    /\ Created < MaxCreated
    /\ nextOrderID' = nextOrderID + 1
    /\ order' = order @@ (nextOrderID :> NewOrder(OrderTypeVIP))
    /\ SetCall(t, "create", nextOrderID)
    /\ UNCHANGED <<nextBotID, orders, pendingOrders, completedOrders, bots, bot, procs, log, logging, lockVars>>

\* CreateNormalOrder's critical section.
CreateNormalOrderInsert(t) ==
    /\ call[t].pc = "create"
    /\ order[call[t].arg].Type = OrderTypeNormal
    /\ orders' = Append(orders, call[t].arg)
    /\ pendingOrders' = Append(pendingOrders, call[t].arg)
    /\ LogThenAssign(t, Event("order created", 0, call[t].arg))
    /\ UNCHANGED <<nextOrderID, nextBotID, completedOrders, bots, order, bot, procs, log, logging, lockVars>>

\* CreateVIPOrder's critical section.
CreateVIPOrderInsert(t) ==
    /\ call[t].pc = "create"
    /\ order[call[t].arg].Type = OrderTypeVIP
    /\ orders' = Append(orders, call[t].arg)
    /\ pendingOrders' = insertVIPOrder(pendingOrders, call[t].arg)
    /\ LogThenAssign(t, Event("order created", 0, call[t].arg))
    /\ UNCHANGED <<nextOrderID, nextBotID, completedOrders, bots, order, bot, procs, log, logging, lockVars>>

NewBot == [Status |-> BotStatusIdle, Order |-> NoOrder, stopChan |-> 0]

\* Mutant: the id of the new bot is taken from the size of the pool.
AddBot_ReusesId(t) ==
    /\ call[t].pc = "idle"
    /\ Created < MaxCreated
    /\ nextBotID' = nextBotID + 1
    /\ bot' = ((BaseBotID + Len(bots)) :> NewBot) @@ bot
    /\ SetCall(t, "add", BaseBotID + Len(bots))
    /\ UNCHANGED <<nextOrderID, orders, pendingOrders, completedOrders, bots, order, procs, log, logging, lockVars>>

\* AddBot, up to oc.mu.Lock(): the atomic id allocation and the new Bot.
AddBot(t) ==
    /\ call[t].pc = "idle"
    /\ Created < MaxCreated
    /\ nextBotID' = nextBotID + 1
    /\ bot' = bot @@ (nextBotID :> NewBot)
    /\ SetCall(t, "add", nextBotID)
    /\ UNCHANGED <<nextOrderID, orders, pendingOrders, completedOrders, bots, order, procs, log, logging, lockVars>>

\* AddBot's critical section.
AddBotAppend(t) ==
    /\ call[t].pc = "add"
    /\ bots' = Append(bots, call[t].arg)
    /\ LogThenAssign(t, Event("bot created", call[t].arg, 0))
    /\ UNCHANGED <<nextOrderID, nextBotID, orders, pendingOrders, completedOrders, order, bot, procs, log, logging, lockVars>>

\* removeBotFromList: botIndex (1-based here).
removedIndex(bs) == Len(bs)

\* Mutant: an empty pool is treated as the removal of an idle bot, with its
\* log line and its assignment pass.
removeBotFromList_NoEmptyCheck(t) ==
    /\ call[t].pc = "idle"
    /\ IF Len(bots) = 0
       THEN /\ SetCall(t, "assign", 0)
            /\ UNCHANGED bots
       ELSE LET i == removedIndex(bots)
            IN  /\ bots' = SubSeq(bots, 1, i - 1) \o SubSeq(bots, i + 1, Len(bots))
                /\ SetCall(t, "stop", bots[i])
    /\ UNCHANGED <<nextOrderID, nextBotID, orders, pendingOrders, completedOrders, order, bot, procs, log, logging, lockVars>>

\* Mutant: RemoveBot picks the newest bot and leaves it in the pool.
removeBotFromList_KeepsBot(t) ==
    /\ call[t].pc = "idle"
    /\ IF Len(bots) = 0
       THEN UNCHANGED <<bots, call>>
       ELSE /\ bots' = bots
            /\ SetCall(t, "stop", bots[removedIndex(bots)])
    /\ UNCHANGED <<nextOrderID, nextBotID, orders, pendingOrders, completedOrders, order, bot, procs, log, logging, lockVars>>

\* RemoveBot up to the return of removeBotFromList; on an empty pool the
\* call returns at once.
removeBotFromList(t) ==
    /\ call[t].pc = "idle"
    /\ IF Len(bots) = 0
       THEN UNCHANGED <<bots, call>>
       ELSE LET i == removedIndex(bots)
            IN  /\ bots' = SubSeq(bots, 1, i - 1) \o SubSeq(bots, i + 1, Len(bots))
                /\ SetCall(t, "stop", bots[i])
    /\ UNCHANGED <<nextOrderID, nextBotID, orders, pendingOrders, completedOrders, order, bot, procs, log, logging, lockVars>>

\* stopBotProcessing, under the bot's lock; the send blocks while stopChan
\* is full.  An idle bot leads to handleIdleBotRemoval (a log line and an
\* assignment pass), a processing one to handleProcessingBotRemoval.
stopBotProcessing(t) ==
    LET b == call[t].arg
        isProcessing == bot[b].Status = BotStatusProcessing /\ bot[b].Order # NoOrder
    IN  /\ call[t].pc = "stop"
        /\ IF ~isProcessing
           THEN /\ LogThenAssign(t, Event("destroyed idle", b, 0))
                /\ UNCHANGED <<order, bot>>
           ELSE /\ bot[b].stopChan < StopChanCap
                /\ bot' = [bot EXCEPT ![b].stopChan = @ + 1]
                /\ order' = [order EXCEPT ![bot[b].Order].Status = OrderStatusPending,
                                          ![bot[b].Order].BotID = 0]
                /\ call' = [call EXCEPT ![t] = [pc |-> "requeue", arg |-> bot[b].Order,
                                                 bot |-> b]]
        /\ UNCHANGED <<nextOrderID, nextBotID, orders, pendingOrders, completedOrders, bots, procs, log, logging, lockVars>>

\* handleProcessingBotRemoval's critical section; the log line and the
\* assignment pass follow.
handleProcessingBotRemoval(t) ==
    /\ call[t].pc = "requeue"
    /\ pendingOrders' = insertOrderToPending(pendingOrders, call[t].arg)
    /\ LogThenAssign(t, Event("returned to pending", call[t].bot, call[t].arg))
    /\ UNCHANGED <<nextOrderID, nextBotID, orders, completedOrders, bots, order, bot, procs, log, logging, lockVars>>

\* Wait: the sleep is over, the assignment pass is next.
Wait(t) ==
    /\ call[t].pc = "idle"
    /\ SetCall(t, "assign", 0)
    /\ UNCHANGED <<nextOrderID, nextBotID, orders, pendingOrders, completedOrders, bots, order, bot, procs, log, logging, lockVars>>

\* assignOrdersToBots as the last call of a caller's operation, which
\* then returns.
assignByCaller(t) ==
    /\ call[t].pc = "assign"
    /\ AssignEffect(procs)
    /\ SetCall(t, "idle", 0)
    /\ UNCHANGED <<nextOrderID, nextBotID, orders, completedOrders, bots, logging, lockVars>>

-----------------------------------------------------------------------------
(* The processOrder goroutines *)

\* select: case <-bot.stopChan
processOrderStop(g) ==
    /\ g.pc = "select"
    /\ bot[g.bot].stopChan > 0
    /\ bot' = [bot EXCEPT ![g.bot].stopChan = @ - 1]
    /\ procs' = Exit(procs, g)
    /\ UNCHANGED <<nextOrderID, nextBotID, orders, pendingOrders, completedOrders, bots, order, call, log, logging, lockVars>>

\* Mutant: the completion clears the bot's order and leaves its status.
completeOrderProcessing_KeepsStatus(g) ==
    LET b == g.bot
    IN  /\ g.pc = "select"
        /\ IF bot[b].Order = NoOrder
           THEN /\ procs' = Exit(procs, g)
                /\ UNCHANGED <<bot, order>>
           ELSE /\ order' = [order EXCEPT ![bot[b].Order].Status = OrderStatusComplete]
                /\ bot' = [bot EXCEPT ![b].Order = NoOrder]
                /\ procs' = Replace(procs, g, [g EXCEPT !.pc = "finalize",
                                                         !.order = bot[b].Order])
        /\ UNCHANGED <<nextOrderID, nextBotID, orders, pendingOrders, completedOrders, bots, call, log, logging, lockVars>>

\* select: case <-ticker.C with the duration elapsed (earlier ticks change
\* nothing), and completeOrderProcessing under the bot's lock
completeOrderProcessing(g) ==
    LET b == g.bot
    IN  /\ g.pc = "select"
        /\ IF bot[b].Order = NoOrder
           THEN /\ procs' = Exit(procs, g)
                /\ UNCHANGED <<bot, order>>
           ELSE /\ order' = [order EXCEPT ![bot[b].Order].Status = OrderStatusComplete]
                /\ bot' = [bot EXCEPT ![b].Order = NoOrder, ![b].Status = BotStatusIdle]
                /\ procs' = Replace(procs, g, [g EXCEPT !.pc = "finalize",
                                                         !.order = bot[b].Order])
        /\ UNCHANGED <<nextOrderID, nextBotID, orders, pendingOrders, completedOrders, bots, call, log, logging, lockVars>>

\* Mutant: the goroutine ends after the append, without its assignment pass.
finalizeOrderCompletion_NoAssign(g) ==
    /\ g.pc = "finalize"
    /\ completedOrders' = Append(completedOrders, g.order)
    /\ procs' = Exit(procs, g)
    /\ UNCHANGED <<nextOrderID, nextBotID, orders, pendingOrders, bots, order, bot, call, log, logging, lockVars>>

\* Mutant: the completion handler forgets the append to the completed set.
finalizeOrderCompletion_NoAppend(g) ==
    /\ g.pc = "finalize"
    /\ procs' = Replace(procs, g,
                        [g EXCEPT !.pc = IF logging THEN "log" ELSE "assign",
                                  !.order = IF logging THEN g.order ELSE NoOrder,
                                  !.hasPendingOrders = Len(pendingOrders) > 0])
    /\ UNCHANGED <<nextOrderID, nextBotID, orders, pendingOrders, completedOrders, bots, order, bot, call, log, logging, lockVars>>

\* finalizeOrderCompletion's critical section; the log line and the
\* assignment pass follow.
finalizeOrderCompletion(g) ==
    /\ g.pc = "finalize"
    /\ completedOrders' = Append(completedOrders, g.order)
    /\ procs' = Replace(procs, g,
                        [g EXCEPT !.pc = IF logging THEN "log" ELSE "assign",
                                  !.order = IF logging THEN g.order ELSE NoOrder,
                                  !.hasPendingOrders = Len(pendingOrders) > 0])
    /\ UNCHANGED <<nextOrderID, nextBotID, orders, pendingOrders, bots, order, bot, call, log, logging, lockVars>>

\* assignOrdersToBots called by finalizeOrderCompletion, after which the
\* goroutine ends
assignByProc(g) ==
    /\ g.pc = "assign"
    /\ AssignEffect(IF logging /\ ~g.hasPendingOrders
                    THEN Replace(procs, g, [g EXCEPT !.pc = "logidle"])
                    ELSE Exit(procs, g))
    /\ UNCHANGED <<nextOrderID, nextBotID, orders, completedOrders, bots, call, logging, lockVars>>

-----------------------------------------------------------------------------

CallerStep(t) ==
    \/ CreateNormalOrder(t)
    \/ CreateVIPOrder(t)
    \/ CreateNormalOrderInsert(t)
    \/ CreateVIPOrderInsert(t)
    \/ AddBot(t)
    \/ AddBotAppend(t)
    \/ removeBotFromList(t)
    \/ stopBotProcessing(t)
    \/ handleProcessingBotRemoval(t)
    \/ Wait(t)
    \/ assignByCaller(t)

\* The goroutines that are running.
Procs == BagToSet(procs)

Next ==
    \/ \E t \in Callers : CallerStep(t)
    \/ \E g \in Procs : processOrderStop(g)
    \/ \E g \in Procs : completeOrderProcessing(g)
    \/ \E g \in Procs : finalizeOrderCompletion(g)
    \/ \E g \in Procs : assignByProc(g)

Spec == Init /\ [][Next]_vars

\* The ids a bot or an order can get within the bound.
BotIDs == BaseBotID..(BaseBotID + MaxCreated - 1)

OrderIDs == BaseOrderID..(BaseOrderID + MaxCreated - 1)

\* A step of a processOrder goroutine of bot b.
GoStep(b) ==
    \E g \in Procs :
        /\ g.bot = b
        /\ \/ processOrderStop(g)
           \/ completeOrderProcessing(g)
           \/ finalizeOrderCompletion(g)
           \/ assignByProc(g)

\* The goroutines run: the Go scheduler runs every runnable goroutine, the
\* ticker of processOrder keeps firing, and a critical section of the
\* controller never blocks while it holds a lock.  Nothing is assumed
\* about the callers.
FairSpec == Spec /\ \A b \in BotIDs : WF_vars(GoStep(b))

\* A step of a call that is in progress.
CallInProgress(t) == call[t].pc # "idle" /\ CallerStep(t)

\* The goroutines run, and a call that has begun runs on until it returns
\* or blocks.  Nothing is assumed about when a caller begins a call.
FairCallSpec == FairSpec /\ \A t \in Callers : WF_vars(CallInProgress(t))

-----------------------------------------------------------------------------
(* The log.  logger.Log takes the logger's own lock and is called outside
   oc.mu by every operation but the assignment pass; in SpecLog each such
   call is a step of its own, in Spec it is part of the step that follows. *)

InitLog ==
    /\ nextOrderID = BaseOrderID
    /\ nextBotID = BaseBotID
    /\ orders = <<>>
    /\ pendingOrders = <<>>
    /\ completedOrders = <<>>
    /\ bots = <<>>
    /\ order = <<>>
    /\ bot = <<>>
    /\ call = [t \in Callers |-> IdleCall]
    /\ procs = EmptyBag
    /\ log = <<>>
    /\ logging = TRUE
    /\ owner = NoOwner
    /\ thread = NoThreads
    /\ shared = NoShared

\* oc.logger.Log(...) of CreateNormalOrder, CreateVIPOrder, AddBot,
\* handleIdleBotRemoval and handleProcessingBotRemoval.
logCall(t) ==
    /\ call[t].pc = "log"
    /\ log' = Emit(<<call[t].arg>>)
    /\ SetCall(t, "assign", 0)
    /\ UNCHANGED <<nextOrderID, nextBotID, orders, pendingOrders, completedOrders, bots, order, bot, procs, logging, lockVars>>

\* oc.logger.Log("Bot #%d completed ...") of finalizeOrderCompletion.
logCompletion(g) ==
    /\ g.pc = "log"
    /\ log' = Emit(<<Event("completed", g.bot, g.order)>>)
    /\ procs' = Replace(procs, g, [g EXCEPT !.pc = "assign", !.order = NoOrder])
    /\ UNCHANGED <<nextOrderID, nextBotID, orders, pendingOrders, completedOrders, bots, order, bot, call, logging, lockVars>>

\* oc.logger.Log("Bot #%d is now IDLE ...") of finalizeOrderCompletion,
\* after which the goroutine ends.
logIdle(g) ==
    /\ g.pc = "logidle"
    /\ log' = Emit(<<Event("now idle", g.bot, 0)>>)
    /\ procs' = Exit(procs, g)
    /\ UNCHANGED <<nextOrderID, nextBotID, orders, pendingOrders, completedOrders, bots, order, bot, call, logging, lockVars>>

NextLog ==
    \/ Next
    \/ \E t \in Callers : logCall(t)
    \/ \E g \in Procs : logCompletion(g)
    \/ \E g \in Procs : logIdle(g)

SpecLog == InitLog /\ [][NextLog]_vars

(***************************************************************************)
(* The lock level.  Each thread runs a list of statements: lock a mutex,   *)
(* unlock it, or do the work between two lock operations.  The data is     *)
(* reduced to what decides which statements come next: the pool, which     *)
(* bots hold an order, the tokens in each stopChan, the number of pending  *)
(* orders.                                                                 *)
(***************************************************************************)

-----------------------------------------------------------------------------
(* The lock level.  A thread runs a list of statements: Lock and Unlock of
   a mutex, and the work done in between, which changes the shared data
   and decides what the thread runs next. *)

Lock(m) == <<"lock", m>>

Unlock(m) == <<"unlock", m>>

Run(e, b) == <<"do", <<e, b>>>>

Owner(m) ==
    IF m = OcMu THEN owner.oc ELSE IF m = LogMu THEN owner.log ELSE owner.bot[m[2]]

SetOwner(m, t) ==
    IF m = OcMu THEN [owner EXCEPT !.oc = t]
    ELSE IF m = LogMu THEN [owner EXCEPT !.log = t]
    ELSE [owner EXCEPT !.bot[m[2]] = t]

\* Logger.Log
LogLine == <<Lock(LogMu), Unlock(LogMu)>>

\* assignOrdersToBots: oc.mu.Lock(), then the loop over the pool as it is
\* at that moment.
Pass == <<Lock(OcMu), Run("range", 0)>>

\* The loop of assignOrdersToBots over pool p, and the deferred
\* oc.mu.Unlock().
RECURSIVE PassLoop(_)
PassLoop(p) ==
    IF p = <<>>
    THEN <<Unlock(OcMu)>>
    ELSE <<Lock(BotMu(Head(p))), Run("assign", Head(p)), Unlock(BotMu(Head(p)))>>
         \o PassLoop(Tail(p))

\* What a caller runs for an operation of the controller with atomic id
\* counters.
Program(op) ==
    CASE op = "CreateOrder" ->
            <<Lock(OcMu), Run("enqueue", 0), Unlock(OcMu)>> \o LogLine \o Pass
      [] op = "AddBot" ->
            <<Lock(OcMu), Run("append", 0), Unlock(OcMu)>> \o LogLine \o Pass
      [] op = "RemoveBot" -> <<Lock(OcMu), Run("pop", 0)>>
      [] op = "Wait" -> Pass
      [] op = "PrintStatus" -> <<Lock(OcMu)>> \o LogLine \o <<Unlock(OcMu)>>

\* The same for the earlier controller, which takes oc.mu for the id.
ProgramNested(op) ==
    CASE op = "CreateOrder" ->
            <<Lock(OcMu), Run("id", 0), Unlock(OcMu),
              Lock(OcMu), Run("enqueue", 0), Unlock(OcMu)>> \o LogLine \o Pass
      [] op = "AddBot" ->
            <<Lock(OcMu), Run("id", 0), Unlock(OcMu),
              Lock(OcMu), Run("append", 0), Unlock(OcMu)>> \o LogLine \o Pass
      [] op = "RemoveBot" -> <<Lock(OcMu), Run("pop", 0)>>
      [] op = "Wait" -> Pass
      [] op = "PrintStatus" -> <<Lock(OcMu)>> \o LogLine \o <<Unlock(OcMu)>>

Operations == {"CreateOrder", "AddBot", "RemoveBot", "Wait", "PrintStatus"}

\* What RemoveBot runs once stopBotProcessing holds the bot's mu and has
\* found the bot processing (busy) or not.
AfterStop(b, busy) ==
    IF busy
    THEN <<Unlock(BotMu(b)), Lock(OcMu), Run("enqueue", 0), Unlock(OcMu)>>
         \o LogLine \o Pass
    ELSE <<Unlock(BotMu(b))>> \o LogLine \o Pass

\* The same for the earlier controller: bot.mu is held to the end of the
\* branch, oc.mu is taken inside it.
AfterStopNested(b, busy) ==
    IF busy
    THEN <<Lock(OcMu), Run("enqueue", 0), Unlock(OcMu)>>
         \o LogLine \o <<Unlock(BotMu(b))>> \o Pass
    ELSE LogLine \o <<Unlock(BotMu(b))>> \o Pass

\* completeOrderProcessing keeping the bot's mu while the order is appended
\* to completedOrders.
AfterComplete_KeepsBotMu(b, busy) ==
    IF busy
    THEN <<Lock(OcMu), Run("completed", 0), Unlock(OcMu),
           Unlock(BotMu(b)), Lock(OcMu), Run("finalize", b)>>
    ELSE <<Unlock(BotMu(b))>>

\* What processOrder runs once completeOrderProcessing holds the bot's mu.
AfterComplete(b, busy) ==
    IF busy
    THEN <<Unlock(BotMu(b)), Lock(OcMu), Run("finalize", b)>>
    ELSE <<Unlock(BotMu(b))>>

\* The same for the earlier controller: the append to completedOrders and
\* the log line are inside bot.mu.
AfterCompleteNested(b, busy) ==
    (IF busy
     THEN <<Lock(OcMu), Run("completed", 0), Unlock(OcMu)>>
          \o LogLine \o <<Run("idle", b)>>
     ELSE <<>>)
    \o <<Unlock(BotMu(b)), Lock(OcMu), Run("hasPending", b)>>

\* finalizeOrderCompletion from oc.mu.Unlock() on.
AfterFinalize(b, hasPendingOrders) ==
    <<Unlock(OcMu)>> \o LogLine \o Pass
    \o (IF hasPendingOrders THEN <<>> ELSE LogLine)

\* The end of processOrder in the earlier controller.
AfterHasPendingNested(b, hasPendingOrders) ==
    <<Unlock(OcMu)>> \o Pass
    \o (IF hasPendingOrders
        THEN <<>>
        ELSE <<Lock(BotMu(b)), Run("idlelog", b), Unlock(BotMu(b))>>)

\* An outcome of a piece of work: the shared data after it, the statements
\* it puts in front of the thread's remaining ones, the bot the thread
\* then works on, and the bot for which it starts a goroutine (0: none).
Out(sh, td, b, g) == [sh |-> sh, todo |-> td, bot |-> b, go |-> g]

\* The outcomes of work e on bot b by thread t; none while the work blocks.
Outcomes(t, e, b) ==
    LET sh == shared
        me == thread[t].bot
        nested == shared.variant = "nested"
    IN  CASE e = "enqueue" -> {Out([sh EXCEPT !.pending = @ + 1], <<>>, me, 0)}
          [] e \in {"id", "completed"} -> {Out(sh, <<>>, me, 0)}
          [] e = "append" -> {Out([sh EXCEPT !.pool = Append(@, me)], <<>>, me, 0)}
          [] e = "pop" ->
                IF sh.pool = <<>>
                THEN {Out(sh, <<Unlock(OcMu)>>, 0, 0)}
                ELSE LET r == sh.pool[Len(sh.pool)]
                     IN  {Out([sh EXCEPT !.pool = SubSeq(@, 1, Len(@) - 1)],
                              <<Unlock(OcMu), Lock(BotMu(r)), Run("stop", r)>>, r, 0)}
          [] e = "stop" ->
                IF ~sh.busy[b]
                THEN {Out(sh, IF nested THEN AfterStopNested(b, FALSE)
                                        ELSE AfterStop(b, FALSE), b, 0)}
                ELSE IF sh.chan[b] < StopChanCap
                THEN {Out([sh EXCEPT !.chan[b] = @ + 1],
                          IF nested THEN AfterStopNested(b, TRUE)
                                    ELSE AfterStop(b, TRUE), b, 0)}
                ELSE {}
          [] e = "range" -> {Out(sh, PassLoop(sh.pool), me, 0)}
          [] e = "assign" ->
                IF ~sh.busy[b] /\ sh.pending > 0
                THEN {Out([sh EXCEPT !.pending = @ - 1, !.busy[b] = TRUE,
                                     !.started = @ + 1], LogLine, me, b)}
                ELSE {Out(sh, <<>>, me, 0)}
          [] e = "select" ->
                {Out(sh, <<Lock(BotMu(b)), Run("complete", b)>>, b, 0)}
                \cup (IF sh.chan[b] > 0
                      THEN {Out([sh EXCEPT !.chan[b] = @ - 1], <<>>, b, 0)}
                      ELSE {})
          [] e = "complete" ->
                IF nested
                THEN {Out(sh, AfterCompleteNested(b, sh.busy[b]), b, 0)}
                ELSE {Out([sh EXCEPT !.busy[b] = FALSE],
                          AfterComplete(b, sh.busy[b]), b, 0)}
          [] e = "idle" -> {Out([sh EXCEPT !.busy[b] = FALSE], <<>>, b, 0)}
          [] e = "finalize" -> {Out(sh, AfterFinalize(b, sh.pending > 0), b, 0)}
          [] e = "hasPending" ->
                {Out(sh, AfterHasPendingNested(b, sh.pending > 0), b, 0)}
          [] e = "idlelog" -> {Out(sh, IF sh.busy[b] THEN <<>> ELSE LogLine, b, 0)}

\* The statement thread t is at, <<>> when it has none.
Stmt(t) == IF thread[t].todo = <<>> THEN <<>> ELSE Head(thread[t].todo)

\* Thread t goes on with the statements td and the bot b; a goroutine that
\* has nothing left to run has returned from processOrder.
Continue(t, td, b) ==
    IF td = <<>> /\ t[1] = "go"
    THEN [u \in DOMAIN thread \ {t} |-> thread[u]]
    ELSE [thread EXCEPT ![t] = [todo |-> td, bot |-> b]]

\* A caller starts one of the controller's operations.  An added bot gets
\* its mutex and its stopChan here.
Begin(c, op) ==
    LET t == CallerThread(c)
        creates == op \in {"CreateOrder", "AddBot"}
        b == Len(shared.busy) + 1
    IN  /\ thread[t].todo = <<>>
        /\ creates => shared.created < MaxLockCreated
        /\ shared' = IF op = "AddBot"
                     THEN [shared EXCEPT !.created = @ + 1,
                                         !.busy = Append(@, FALSE),
                                         !.chan = Append(@, 0)]
                     ELSE IF op = "CreateOrder"
                     THEN [shared EXCEPT !.created = @ + 1]
                     ELSE shared
        /\ thread' = [thread EXCEPT ![t] =
                         [todo |-> IF shared.variant = "nested"
                                   THEN ProgramNested(op) ELSE Program(op),
                          bot |-> IF op = "AddBot" THEN b ELSE 0]]
        /\ UNCHANGED <<owner, progVars>>

\* m.Lock() returns: the mutex was free.
Acquire(t) ==
    /\ Stmt(t) # <<>>
    /\ Stmt(t)[1] = "lock"
    /\ Owner(Stmt(t)[2]) = NoThread
    /\ owner' = SetOwner(Stmt(t)[2], t)
    /\ thread' = Continue(t, Tail(thread[t].todo), thread[t].bot)
    /\ UNCHANGED <<shared, progVars>>

\* m.Unlock()
Release(t) ==
    /\ Stmt(t) # <<>>
    /\ Stmt(t)[1] = "unlock"
    /\ owner' = SetOwner(Stmt(t)[2], NoThread)
    /\ thread' = Continue(t, Tail(thread[t].todo), thread[t].bot)
    /\ UNCHANGED <<shared, progVars>>

\* The work between two lock operations; `go oc.processOrder(bot)` adds a
\* thread waiting in the select.
Step(t) ==
    /\ Stmt(t) # <<>>
    /\ Stmt(t)[1] = "do"
    /\ \E o \in Outcomes(t, Stmt(t)[2][1], Stmt(t)[2][2]) :
          /\ shared' = o.sh
          /\ thread' =
               LET rest == Continue(t, o.todo \o Tail(thread[t].todo), o.bot)
               IN  IF o.go = 0
                   THEN rest
                   ELSE [u \in DOMAIN rest \cup {GoThread(o.sh.started)} |->
                            IF u \in DOMAIN rest
                            THEN rest[u]
                            ELSE [todo |-> <<Run("select", o.go)>>, bot |-> o.go]]
    /\ UNCHANGED <<owner, progVars>>

NextLocks ==
    \/ \E c \in Callers, op \in Operations : Begin(c, op)
    \/ \E t \in DOMAIN thread : Acquire(t) \/ Release(t) \/ Step(t)

\* The refactored controller (part_001) at the lock level.
SpecLocks == Init /\ [][NextLocks]_vars

\* The earlier controller (part_002) at the lock level.
InitNested ==
    /\ nextOrderID = BaseOrderID
    /\ nextBotID = BaseBotID
    /\ orders = <<>>
    /\ pendingOrders = <<>>
    /\ completedOrders = <<>>
    /\ bots = <<>>
    /\ order = <<>>
    /\ bot = <<>>
    /\ call = [t \in Callers |-> IdleCall]
    /\ procs = EmptyBag
    /\ log = <<>>
    /\ logging = FALSE
    /\ owner = NoOwner
    /\ thread = NoThreads
    /\ shared = [NoShared EXCEPT !.variant = "nested"]

SpecNested == InitNested /\ [][NextLocks]_vars

-----------------------------------------------------------------------------
(* Vocabulary of the properties *)

NoDup(q) == \A i, j \in 1..Len(q) : q[i] = q[j] => i = j

Count(q, o) == Cardinality({i \in 1..Len(q) : q[i] = o})

RemoveAt(q, k) == SubSeq(q, 1, k - 1) \o SubSeq(q, k + 1, Len(q))

IsSuffix(q2, q) ==
    /\ Len(q2) <= Len(q)
    /\ q2 = SubSeq(q, Len(q) - Len(q2) + 1, Len(q))

\* The number of VIP orders in q.
VIPCount(q) == Cardinality({i \in 1..Len(q) : order[q[i]].Type = OrderTypeVIP})

\* q with o put at index k (0-based, as in the code).
InsertAt(q, k, o) == SubSeq(q, 1, k) \o <<o>> \o SubSeq(q, k + 1, Len(q))

\* The pool bots whose current-order slot holds o.
Holders(o) == {b \in Range(bots) : bot[b].Order = o}

\* Some thread is running an assignment pass in this step.
AssignPassStep ==
    \/ \E t \in Callers : assignByCaller(t)
    \/ \E g \in Procs : assignByProc(g)

\* No call is in progress and no goroutine is past its select.
Quiescent ==
    /\ \A t \in Callers : call[t].pc = "idle"
    /\ \A g \in Procs : g.pc = "select"

-----------------------------------------------------------------------------
(* C1 *)

\* C1: in every reachable state the pending queue is a run of VIP orders
\* followed by a run of Normal orders: no Normal order is at a lower index
\* than a VIP order.
C1_VIPBeforeNormal ==
    \A i, j \in 1..Len(pendingOrders) :
        i < j => ~(/\ order[pendingOrders[i]].Type = OrderTypeNormal
                   /\ order[pendingOrders[j]].Type = OrderTypeVIP)

\* A VIP order entered the queue after a Normal order (it has the higher id)
\* and stands before it.
C1_Witness ==
    /\ Len(pendingOrders) = 2
    /\ order[pendingOrders[1]].Type = OrderTypeVIP
    /\ order[pendingOrders[2]].Type = OrderTypeNormal
    /\ pendingOrders[1] > pendingOrders[2]

-----------------------------------------------------------------------------
(* C2 *)

\* C2: each class is FIFO.  Every step leaves the queue as it is, or removes
\* orders from its head only (so of two pending orders the one at the lower
\* index is picked up no later), or inserts one order without reordering
\* the others and behind every pending order of its own class; the queue
\* never holds an order twice.
C2_FIFOWithinClass ==
    [][/\ NoDup(pendingOrders')
       /\ \/ pendingOrders' = pendingOrders
          \/ /\ Len(pendingOrders') < Len(pendingOrders)
             /\ IsSuffix(pendingOrders', pendingOrders)
          \/ \E k \in 1..Len(pendingOrders') :
                /\ RemoveAt(pendingOrders', k) = pendingOrders
                /\ \A j \in 1..Len(pendingOrders') :
                      (/\ j # k
                       /\ order'[pendingOrders'[j]].Type = order'[pendingOrders'[k]].Type)
                      => j < k]_vars

\* Two pending VIP orders, the older one (first in the registry) behind
\* the younger: a removal put it back, behind the order already waiting.
C2_Witness ==
    /\ Len(pendingOrders) = 2
    /\ order[pendingOrders[1]].Type = OrderTypeVIP
    /\ order[pendingOrders[2]].Type = OrderTypeVIP
    /\ orders = <<pendingOrders[2], pendingOrders[1]>>
    /\ pendingOrders[2] < pendingOrders[1]
    /\ Len(bots) < nextBotID - BaseBotID

-----------------------------------------------------------------------------
(* C3 *)

\* C3: every order of the registry is in exactly one of the pending queue,
\* the current-order slot of a pool bot, the completed set, and these three
\* hold nothing else.
C3_ExactlyOnePlace ==
    /\ \A o \in Range(orders) :
          Count(pendingOrders, o) + Cardinality(Holders(o)) + Count(completedOrders, o) = 1
    /\ Range(pendingOrders) \cup {bot[b].Order : b \in Range(bots)} \cup Range(completedOrders)
          \subseteq Range(orders) \cup {NoOrder}

-----------------------------------------------------------------------------
(* C4 *)

\* C4: an order returned to the queue by RemoveBot is there once and is not
\* in the completed set, and no order is in the completed set twice.
C4_RequeueNoLossNoDup ==
    /\ NoDup(pendingOrders)
    /\ Range(pendingOrders) \cap Range(completedOrders) = {}
    /\ NoDup(completedOrders)

-----------------------------------------------------------------------------
(* C5 *)

\* C5: once stopBotProcessing has sent on a bot's stopChan, no step of that
\* bot's goroutine completes the bot's order (completeOrderProcessing is
\* the only step that clears a bot's Order).
C5_CancellationWins ==
    [][\A b \in DOMAIN bot :
          bot[b].stopChan > 0 => ~(bot[b].Order # NoOrder /\ bot'[b].Order = NoOrder)]_vars

-----------------------------------------------------------------------------
(* C6 *)

\* C6: a step that takes a bot out of the pool takes the bot with the
\* highest id in the pool and leaves the others.
C6_RemovesHighestId ==
    [][Len(bots') < Len(bots) =>
          \E b \in Range(bots) :
              /\ \A c \in Range(bots) : c <= b
              /\ Range(bots') = Range(bots) \ {b}]_vars

-----------------------------------------------------------------------------
(* C7 *)

\* C7: the k-th order of the registry has id 1000+k, and the bots of the pool
\* have distinct ids from 1 on.
C7_IdsInRegistryOrder ==
    /\ \A k \in 1..Len(orders) : orders[k] = BaseOrderID + k - 1
    /\ NoDup(bots)
    /\ \A b \in Range(bots) : b >= BaseBotID

-----------------------------------------------------------------------------
(* C8 *)

\* C8: an order leaves the pending queue only in a step of the assignment
\* pass and only from the head: what is left is a suffix of the queue, the
\* orders in front of it are the ones picked up, in that order; a Normal
\* order is picked up only when no VIP order stands behind it in the queue,
\* and an order becomes Processing only by being picked up this way.
C8_LeavesFromHeadInPass ==
    [][LET n == Len(pendingOrders) - Len(pendingOrders')
       IN  /\ (\E o \in Range(pendingOrders) : o \notin Range(pendingOrders'))
              => /\ AssignPassStep
                 /\ n > 0
                 /\ IsSuffix(pendingOrders', pendingOrders)
                 /\ \A i \in 1..n :
                       order[pendingOrders[i]].Type = OrderTypeNormal
                       => \A j \in i..Len(pendingOrders) :
                             order[pendingOrders[j]].Type # OrderTypeVIP
           /\ \A o \in DOMAIN order :
                 (/\ order[o].Status # OrderStatusProcessing
                  /\ order'[o].Status = OrderStatusProcessing)
                 => /\ n > 0
                    /\ \E i \in 1..n : pendingOrders[i] = o]_vars

\* A bot is processing a VIP order that was picked up while a Normal order
\* with a lower id stayed behind in the queue.
C8_Witness ==
    \E b \in Range(bots) :
        /\ bot[b].Order # NoOrder
        /\ order[bot[b].Order].Type = OrderTypeVIP
        /\ order[bot[b].Order].Status = OrderStatusProcessing
        /\ Len(pendingOrders) = 1
        /\ order[pendingOrders[1]].Type = OrderTypeNormal
        /\ pendingOrders[1] < bot[b].Order

-----------------------------------------------------------------------------
(* C9 *)

\* C9: when no call is in progress and no completion handler is running,
\* the pool does not hold an Idle bot while the pending queue is non-empty.
C9_NoIdleBotWithPending ==
    Quiescent =>
        ~(/\ pendingOrders # <<>>
          /\ \E b \in Range(bots) : bot[b].Status = BotStatusIdle)

\* Quiescent with work left: every call has returned, an order waits and
\* the pool's bot is busy with another one.
C9_Witness ==
    /\ Quiescent
    /\ pendingOrders # <<>>
    /\ bots # <<>>
    /\ \A b \in Range(bots) : bot[b].Status = BotStatusProcessing

-----------------------------------------------------------------------------
(* C10 *)

\* C10: the assignment pass is idempotent.  From every reachable state, a
\* second pass run right after a first one changes nothing and starts no
\* goroutine (it logs a pick-up exactly when it starts one); and a pass is a
\* no-op when no pool bot is Idle or the pending queue is empty.
C10_AssignIdempotent ==
    LET once  == assignOrdersToBots(Here)
        twice == assignOrdersToBots([once EXCEPT !.started = <<>>])
    IN  /\ twice = [once EXCEPT !.started = <<>>]
        /\ (\/ pendingOrders = <<>>
            \/ \A b \in Range(bots) : bot[b].Status # BotStatusIdle)
           => once = Here

\* A state in which the first pass does assign and leaves an order behind:
\* a pool bot is Idle and more orders are pending than bots are Idle.
C10_Witness ==
    /\ assignOrdersToBots(Here).started # <<>>
    /\ assignOrdersToBots(Here).pending # <<>>

-----------------------------------------------------------------------------
(* C11 *)

\* C11: RemoveBot on an empty pool is a no-op: the step of a caller that
\* runs removeBotFromList while the pool is empty changes nothing, neither
\* the pool, the queue, the completed set, an order, a counter, nor the
\* caller's own position (it has returned, with no error and no log line).
C11_EmptyPoolNoOp ==
    [][\A t \in Callers :
          (bots = <<>> /\ removeBotFromList(t)) => UNCHANGED vars]_vars

\* No call is in progress, the pool is empty again after a removal and an
\* order waits in the queue: the next RemoveBot finds no bot.
C11_Witness ==
    /\ bots = <<>>
    /\ nextBotID > BaseBotID
    /\ pendingOrders # <<>>
    /\ \A t \in Callers : call[t].pc = "idle"

-----------------------------------------------------------------------------
(* C12 *)

-----------------------------------------------------------------------------
(* C13 *)

\* C13: when RemoveBot has put the order of a removed Processing bot back
\* (the caller leaves "requeue"), that order is in the pending queue with
\* status Pending and BotID 0, its id and class are what they were, and no
\* order id was allocated for it.
C13_RecoveredOrderPending ==
    [][\A t \in Callers :
          (call[t].pc = "requeue" /\ call'[t].pc # "requeue")
          => LET o == call[t].arg
             IN  /\ o \in Range(pendingOrders')
                 /\ order'[o].Status = OrderStatusPending
                 /\ order'[o].BotID = 0
                 /\ order'[o].Type = order[o].Type
                 /\ DOMAIN order' = DOMAIN order
                 /\ nextOrderID' = nextOrderID]_vars

-----------------------------------------------------------------------------
(* C14 *)

\* A pool bot b is processing order o.
ProcessingAt(b, o) ==
    /\ b \in Range(bots)
    /\ bot[b].Order = o
    /\ bot[b].Status = BotStatusProcessing

-----------------------------------------------------------------------------
(* C15 *)

\* C15: the log has its lines in the order of the transitions.  For every
\* "picked up" line: a creation line of that order stands before it; if
\* the order was picked up before, a "returned to pending" line of that
\* order stands between the two pick-ups; and if the bot picked up an order
\* before, the bot's completion line for that order stands between the
\* two pick-ups.
C15_LogInTransitionOrder ==
    \A i \in 1..Len(log) :
        log[i].kind = "picked up" =>
            /\ \E j \in 1..(i - 1) :
                  /\ log[j].kind = "order created"
                  /\ log[j].order = log[i].order
            /\ \A j \in 1..(i - 1) :
                  (log[j].kind = "picked up" /\ log[j].order = log[i].order)
                  => \E k \in (j + 1)..(i - 1) :
                        /\ log[k].kind = "returned to pending"
                        /\ log[k].order = log[i].order
            /\ \A j \in 1..(i - 1) :
                  (log[j].kind = "picked up" /\ log[j].bot = log[i].bot)
                  => \E k \in (j + 1)..(i - 1) :
                        /\ log[k].kind = "completed"
                        /\ log[k].bot = log[i].bot
                        /\ log[k].order = log[j].order

-----------------------------------------------------------------------------
(* C16 *)

\* C16: RemoveBot and a completion are atomic.  In no state in which oc.mu
\* is free (every state of the model) is an order assigned to a bot that is
\* out of the pool and not yet back in the pending queue, or an order
\* Complete and not yet in the completed set.
C16_NoIntermediateState ==
    /\ \A b \in DOMAIN bot \ Range(bots) :
          \A o \in Range(orders) \ Range(pendingOrders) :
              ~(/\ bot[b].Order = o
                /\ order[o].Status = OrderStatusProcessing
                /\ order[o].BotID = b)
    /\ \A o \in Range(orders) :
          order[o].Status = OrderStatusComplete => o \in Range(completedOrders)

-----------------------------------------------------------------------------
(* C17 *)

\* C17: a Complete order is final.  No step changes the status, the class
\* or the BotID of an order that is Complete, puts it into the pending
\* queue, or makes it the current order of a bot.
C17_CompleteIsFinal ==
    [][\A o \in DOMAIN order :
          order[o].Status = OrderStatusComplete
          => /\ order'[o] = order[o]
             /\ o \notin Range(pendingOrders) => o \notin Range(pendingOrders')
             /\ \A b \in DOMAIN bot : bot'[b].Order = o => bot[b].Order = o]_vars

-----------------------------------------------------------------------------
(* C18 *)

\* C18: for every bot, in the pool or not, in every state in which the
\* bot's lock is free (every state of the model), the bot has a current
\* order exactly when its status is Processing.
C18_OrderIffProcessing ==
    \A b \in DOMAIN bot :
        (bot[b].Order # NoOrder) <=> (bot[b].Status = BotStatusProcessing)

\* A bot is Idle again, with no order, after it completed one, and a bot
\* taken out of the pool still is Processing the order it had.
C18_Witness ==
    /\ \E b \in DOMAIN bot :
          /\ bot[b].Status = BotStatusIdle
          /\ bot[b].Order = NoOrder
          /\ \E o \in Range(completedOrders) : order[o].BotID = b
    /\ \E b \in DOMAIN bot \ Range(bots) :
          /\ bot[b].Status = BotStatusProcessing
          /\ bot[b].Order # NoOrder

-----------------------------------------------------------------------------
(* C19 *)

\* C19: no order is the current order of two bots at once, counting the
\* bots that were taken out of the pool.
C19_OneHolderPerOrder ==
    \A o \in DOMAIN order :
        Cardinality({b \in DOMAIN bot : bot[b].Order = o}) <= 1

-----------------------------------------------------------------------------
(* C20 *)

\* Bot b was taken out of the pool (a bot that AddBot has made and not
\* yet appended is not in the pool either).
Removed(b) ==
    /\ b \in DOMAIN bot
    /\ b \notin Range(bots)
    /\ \A t \in Callers : ~(call[t].pc = "add" /\ call[t].arg = b)

\* C20: a removed bot is never used again.  The bot RemoveBot takes is out
\* of the pool; a removed bot stays removed and is given no order (its
\* current-order slot changes only by being cleared); and a step that
\* allocates a bot id makes a bot object with an id above every id in use.
C20_RemovedNeverReused ==
    [][/\ \A t \in Callers :
             (call[t].pc # "stop" /\ call'[t].pc = "stop")
             => call'[t].arg \notin Range(bots')
       /\ \A b \in DOMAIN bot :
             Removed(b)
             => /\ Removed(b)'
                /\ bot'[b].Order \in {bot[b].Order, NoOrder}
       /\ nextBotID' # nextBotID
             => /\ DOMAIN bot' \ DOMAIN bot = {nextBotID}
                /\ \A b \in DOMAIN bot : b < nextBotID]_vars

\* A bot was removed while it was processing; a bot with a higher id is in
\* the pool and has picked the order up.
C20_Witness ==
    \E b \in DOMAIN bot : \E c \in Range(bots) :
        /\ Removed(b)
        /\ c > b
        /\ bot[b].Order # NoOrder
        /\ bot[c].Order = bot[b].Order
        /\ bot[c].Status = BotStatusProcessing

-----------------------------------------------------------------------------
(* C21 *)

\* The Idle bots of the pool, in pool order.
IdleBots == SelectSeq(bots, LAMBDA b : bot[b].Status = BotStatusIdle)

-----------------------------------------------------------------------------
(* C22 *)

\* C22: under fair scheduling of the goroutines and of the calls in
\* progress, if from some point on the pool holds a bot (within the bound
\* on creations every run reaches a point after which no order is created
\* and no bot is removed), then every order that was created is from some
\* point on in the completed set, and the pending queue is from some point
\* on empty.
C22_AllOrdersCompleted ==
    <>[](bots # <<>>)
    => /\ \A o \in OrderIDs :
             <>[](o \in DOMAIN order => o \in Range(completedOrders))
       /\ <>[](pendingOrders = <<>>)

\* Two orders and one bot: both orders are completed, the second one was
\* picked up by the pass of the first one's completion or of a call; the
\* queue is empty and nothing is running.
C22_Witness ==
    /\ Cardinality(Range(completedOrders)) = 2
    /\ Range(completedOrders) = DOMAIN order
    /\ pendingOrders = <<>>
    /\ bots # <<>>
    /\ Quiescent
    /\ procs = EmptyBag


(***************************************************************************)
(* Vocabulary of the lock level.                                           *)
(***************************************************************************)
Threads == DOMAIN thread

Mutexes == {OcMu, LogMu} \cup {BotMu(b) : b \in 1..MaxLockCreated}

IsBotMu(m) == m[1] = "bot"

\* Thread t has called Lock on a mutex and has not got it yet.
Requests(t) == Stmt(t) # <<>> /\ Stmt(t)[1] = "lock"

Wants(t) == Stmt(t)[2]

Held(t) == {m \in Mutexes : Owner(m) = t}

\* Thread t is in Lock() on a mutex some thread holds.
Waits(t) == Requests(t) /\ Owner(Wants(t)) # NoThread

\* Thread t is in the send of stopBotProcessing on a full stopChan.
SendBlocked(t) ==
    /\ Stmt(t) # <<>>
    /\ Stmt(t)[1] = "do"
    /\ Stmt(t)[2][1] = "stop"
    /\ Outcomes(t, "stop", Stmt(t)[2][2]) = {}

\* A set of threads none of which can go on before another of them does:
\* each waits for a mutex held inside the set.
Stuck(S) ==
    /\ S # {}
    /\ \A t \in S : Waits(t) /\ Owner(Wants(t)) \in S

\* C23: in the refactored controller no set of threads waits for each
\* other's mutexes, no thread sits in a blocked send while holding a mutex,
\* a bot's mu is requested only by a thread that holds oc.mu or nothing,
\* and oc.mu is never requested by a thread that holds a bot's mu.
C23_NoDeadlock ==
    /\ \A S \in SUBSET Threads : ~Stuck(S)
    /\ \A t \in Threads :
          /\ ~SendBlocked(t)
          /\ Requests(t) /\ IsBotMu(Wants(t)) => Held(t) \subseteq {OcMu}
          /\ Requests(t) /\ Wants(t) = OcMu => \A m \in Held(t) : ~IsBotMu(m)

\* A pass holding oc.mu waits for the mu of a bot whose goroutine is in its
\* completion step, while a third thread waits for oc.mu.
C23_Witness ==
    \E t, u, g \in Threads :
        /\ Waits(t) /\ IsBotMu(Wants(t)) /\ Held(t) = {OcMu}
        /\ Owner(Wants(t)) = g /\ g[1] = "go"
        /\ Waits(u) /\ Wants(u) = OcMu


\* C24: in the earlier controller no two threads wait for each other's
\* lock: never does one thread hold a bot's mu and wait for oc.mu (the
\* completion step of processOrder, the requeue of RemoveBot) while the
\* thread holding oc.mu waits for that bot's mu (an assignment pass).
C24_NoLockCycle ==
    \A t, u \in Threads :
        ~ /\ Waits(t) /\ Wants(t) = OcMu /\ Owner(OcMu) = u
          /\ Waits(u) /\ IsBotMu(Wants(u)) /\ Owner(Wants(u)) = t


-----------------------------------------------------------------------------
(* C25 *)

\* C25: the send of stopBotProcessing never blocks.  A RemoveBot that has
\* taken a bot out of the pool finds that bot's stopChan empty and is the
\* only call removing it, so stopBotProcessing can run to its return; a
\* value enters a stopChan only by that send, into an empty channel of a
\* removed bot; a call takes only a bot of the pool, and a removed bot
\* stays removed, so no bot is sent a second value.
C25_SendNeverBlocks ==
    /\ [](\A t \in Callers :
             call[t].pc = "stop"
             => /\ Removed(call[t].arg)
                /\ bot[call[t].arg].stopChan = 0
                /\ \A u \in Callers \ {t} :
                      ~(call[u].pc = "stop" /\ call[u].arg = call[t].arg)
                /\ ENABLED stopBotProcessing(t))
    /\ [][/\ \A b \in DOMAIN bot :
               bot'[b].stopChan > bot[b].stopChan
               => /\ bot[b].stopChan = 0
                  /\ bot'[b].stopChan <= StopChanCap
                  /\ Removed(b)
                  /\ \E t \in Callers :
                        /\ call[t].pc = "stop" /\ call[t].arg = b
                        /\ call'[t].pc = "requeue"
          /\ \A t \in Callers :
               (call[t].pc # "stop" /\ call'[t].pc = "stop")
               => call'[t].arg \in Range(bots) \ Range(bots')
          /\ \A b \in DOMAIN bot : Removed(b) => Removed(b)']_vars

\* A removal has sent its signal and returned from stopBotProcessing: the
\* value sits in the stopChan of the removed bot.
C25_Witness ==
    \E t \in Callers :
        /\ call[t].pc = "requeue"
        /\ bot[call[t].bot].stopChan = StopChanCap
        /\ Removed(call[t].bot)


-----------------------------------------------------------------------------
(* C26 *)

\* The goroutines that have run completeOrderProcessing for a bot that is
\* out of the pool and was sent no cancellation signal: the completion
\* took the bot's lock before stopBotProcessing did, or the bot was removed
\* after it.
CompletedBeforeStop ==
    {g \in BagToSet(procs) :
        /\ g.pc = "finalize"
        /\ g.bot \notin Range(bots)
        /\ bot[g.bot].stopChan = 0}

\* C26: when completeOrderProcessing takes the bot's lock before
\* stopBotProcessing, the removal is an idle removal and the order is
\* completed once.  stopBotProcessing on a bot the completion has made Idle
\* sends no signal, changes no order and reinserts nothing; and the append
\* of finalizeOrderCompletion for such a bot puts the order into
\* completedOrders, where it then occurs exactly once, and not in the queue.
C26_CompletionWinsRace ==
    [][/\ \A t \in Callers :
             (call[t].pc = "stop" /\ call'[t].pc # "stop"
                 /\ bot[call[t].arg].Status = BotStatusIdle)
             => /\ bot' = bot
                /\ order' = order
                /\ pendingOrders' = pendingOrders
                /\ call'[t].pc # "requeue"
       /\ \A g \in CompletedBeforeStop :
             completedOrders' = Append(completedOrders, g.order)
             => /\ Count(completedOrders', g.order) = 1
                /\ g.order \notin Range(pendingOrders')]_vars


-----------------------------------------------------------------------------
(* C27 *)

\* The number of processOrder goroutines of bot b waiting in the select.
Selecting(b) == CopiesIn(NewProc(b), procs)

\* C27: goroutines do not accumulate and a stop signal reaches the
\* goroutine of the preempted order: at any time at most one goroutine per
\* bot waits in the select, and while a signal sits in a bot's stopChan the
\* goroutine that is to consume it is waiting there.
C27_StopReachesItsGoroutine ==
    \A b \in DOMAIN bot :
        /\ Selecting(b) <= 1
        /\ bot[b].stopChan > 0 => Selecting(b) = 1

====
